---- MODULE Spec2Model ----
(***************************************************************************)
(* A model of the conversational pipeline of app.py: the layer registry,   *)
(* the per-layer context builders, the rule-based intent extractor, the    *)
(* tool-calling orchestrator, the chat handler's reply fallback chain and  *)
(* the welcome composer.                                                   *)
(*                                                                         *)
(* Text.  A user message is a sequence of characters (one-character        *)
(* strings), so that substring containment, str.lower, str.strip and the   *)
(* \b-anchored regular expressions are computed character by character.    *)
(* A grounding context is a sequence of chunks: the literal fragments of   *)
(* the f-string, the formatted integers, the names and the line break NL,  *)
(* so that rendering and the later splitlines / startswith / re.search     *)
(* parse are two different computations.  Replies are strings.             *)
(* Python's None is the empty tuple, a present value v is <<v>>.           *)
(***************************************************************************)
EXTENDS Integers, Sequences, FiniteSets, TLC

VARIABLES
    azureConfigured,   \* AZURE_OPENAI_ENDPOINT, _API_KEY and _DEPLOYMENT are all set
    onemapUp,          \* ONEMAP_TOKEN is set and the upstream fetch succeeds
    dengueUpstream,    \* the dengue features' properties the upstream holds
    planningUpstream,  \* the planning features' properties the upstream holds
    op,                \* the handler that produced the current response
    message,           \* the request's message (characters)
    toolResponse,      \* what the backend answered to the tool-calling call
    plainResponse,     \* what the backend answered to the plain call
    arg,               \* the argument of a context builder call: [layer, max_items]
    out,               \* the handler's result
    calls              \* calls made while handling: [builder, tools, plain]

vars == <<azureConfigured, onemapUp, dengueUpstream, planningUpstream, op, message,
          toolResponse, plainResponse, arg, out, calls>>

None == <<>>
Some(v) == <<v>>
Min(a, b) == IF a <= b THEN a ELSE b

(***************************************************************************)
(* Bounds of the model.                                                    *)
(***************************************************************************)
MaxWords == 2      \* words in a generated message
MaxFeats == 4      \* upstream features in a generated data state
MaxCalls == 2      \* tool calls in a generated model response
MaxItems == 3      \* max_items of a generated context builder call

(***************************************************************************)
(* Sequences.                                                              *)
(***************************************************************************)
Take(s, k) == SubSeq(s, 1, Min(k, Len(s)))
Drop(s, k) == SubSeq(s, k + 1, Len(s))

RECURSIVE Concat(_)
Concat(ss) == IF ss = <<>> THEN <<>> ELSE Head(ss) \o Concat(Tail(ss))

RECURSIVE SeqsUpTo(_, _)
SeqsUpTo(S, n) ==
    IF n = 0 THEN {<<>>}
    ELSE LET shorter == SeqsUpTo(S, n - 1)
         IN  shorter \cup {Append(s, x) : s \in shorter, x \in S}

\* sep.join(ss), by halves
RECURSIVE JoinStr(_, _)
JoinStr(ss, sep) ==
    IF ss = <<>> THEN ""
    ELSE IF Len(ss) = 1 THEN ss[1]
    ELSE LET h == Len(ss) \div 2
         IN  JoinStr(SubSeq(ss, 1, h), sep) \o sep \o JoinStr(SubSeq(ss, h + 1, Len(ss)), sep)

\* the string a sequence of characters or chunks spells
FlattenStr(chunks) == JoinStr(chunks, "")

(***************************************************************************)
(* Characters: str.lower, str.strip, \w, \s, \b, substring search.         *)
(***************************************************************************)
LowerLetters == <<"a","b","c","d","e","f","g","h","i","j","k","l","m",
                  "n","o","p","q","r","s","t","u","v","w","x","y","z">>
UpperLetters == <<"A","B","C","D","E","F","G","H","I","J","K","L","M",
                  "N","O","P","Q","R","S","T","U","V","W","X","Y","Z">>
Range(f) == {f[i] : i \in DOMAIN f}
Digits == {"0","1","2","3","4","5","6","7","8","9"}

LowerSet == Range(LowerLetters)
UpperSet == Range(UpperLetters)
WordChars == LowerSet \cup UpperSet \cup Digits \cup {"_"}
SpaceChars == {" ", "\t", "\n"}

LowerChar(c) ==
    IF c \in UpperSet
    THEN LowerLetters[CHOOSE i \in DOMAIN UpperLetters : UpperLetters[i] = c]
    ELSE c
UpperChar(c) ==
    IF c \in LowerSet
    THEN UpperLetters[CHOOSE i \in DOMAIN LowerLetters : LowerLetters[i] = c]
    ELSE c
Lower(s) == [i \in DOMAIN s |-> LowerChar(s[i])]

IsSpace(c) == c \in SpaceChars
IsWordChar(c) == c \in WordChars

RECURSIVE LStrip(_)
LStrip(s) == IF s # <<>> /\ IsSpace(Head(s)) THEN LStrip(Tail(s)) ELSE s
RECURSIVE RStrip(_)
RStrip(s) == IF s # <<>> /\ IsSpace(s[Len(s)]) THEN RStrip(SubSeq(s, 1, Len(s) - 1)) ELSE s
Strip(s) == RStrip(LStrip(s))

\* w occurs in s at position i
OccursAt(w, s, i) ==
    i >= 1 /\ i + Len(w) - 1 <= Len(s) /\ \A k \in 1..Len(w) : s[i + k - 1] = w[k]
\* Python's `w in s`
Contains(s, w) == \E i \in 1..(Len(s) + 1) : OccursAt(w, s, i)

\* \b between positions i-1 and i of s (i in 1..Len(s)+1)
Boundary(s, i) ==
    LET before == i > 1 /\ IsWordChar(s[i - 1])
        after  == i <= Len(s) /\ IsWordChar(s[i])
    IN  before # after

\* re.search(r"\b(w1|w2|...)\b", s) for literal alternatives
SearchWord(s, words) ==
    \E w \in words : \E i \in 1..(Len(s) + 1) :
        OccursAt(w, s, i) /\ Boundary(s, i) /\ Boundary(s, i + Len(w))

\* the end positions (exclusive) of \s+ matched from position i
SpaceRunEnds(s, i) ==
    {j \in (i + 1)..(Len(s) + 1) : \A k \in i..(j - 1) : IsSpace(s[k])}

(***************************************************************************)
(* The words of the registry, of the extractor and of the pattern rules.   *)
(***************************************************************************)
W_dengue == <<"d","e","n","g","u","e">>
W_hotspot == <<"h","o","t","s","p","o","t">>
W_cluster == <<"c","l","u","s","t","e","r">>
W_clusters == <<"c","l","u","s","t","e","r","s">>
W_planning == <<"p","l","a","n","n","i","n","g">>
W_planning_area == <<"p","l","a","n","n","i","n","g"," ","a","r","e","a">>
W_boundary == <<"b","o","u","n","d","a","r","y">>
W_boundaries == <<"b","o","u","n","d","a","r","i","e","s">>
W_hide == <<"h","i","d","e">>
W_off == <<"o","f","f">>
W_remove == <<"r","e","m","o","v","e">>
W_turn_off == <<"t","u","r","n"," ","o","f","f">>
W_disable == <<"d","i","s","a","b","l","e">>
W_clear == <<"c","l","e","a","r">>
W_reset == <<"r","e","s","e","t">>
W_all == <<"a","l","l">>
W_list == <<"l","i","s","t">>
W_show == <<"s","h","o","w">>
W_summarize == <<"s","u","m","m","a","r","i","z","e">>
W_summary == <<"s","u","m","m","a","r","y">>
W_areas == <<"a","r","e","a","s">>
W_and == <<"a","n","d">>
W_office == <<"o","f","f","i","c","e">>
W_hello == <<"h","e","l","l","o">>
W_please == <<"p","l","e","a","s","e">>
T_dengue == <<"D","e","n","g","u","e"," ","H","o","t","s","p","o","t","s">>
T_planning == <<"P","l","a","n","n","i","n","g"," ","A","r","e","a","s"," ","(","2","0","1","9",")">>

(***************************************************************************)
(* The layer registry, in the order of the dictionary literal.             *)
(* total_word stands for total_regex: r":\s*(\d+)\s*<total_word>".         *)
(***************************************************************************)
Registry ==
    << [key |-> "dengue", keyChars |-> W_dengue, title |-> T_dengue,
        synonyms |-> <<W_dengue, W_hotspot, W_cluster, W_clusters>>,
        total_word |-> "unique"],
       [key |-> "planning", keyChars |-> W_planning, title |-> T_planning,
        synonyms |-> <<W_planning_area, W_planning, W_boundary, W_boundaries>>,
        total_word |-> "total"] >>

LayerNames == [i \in DOMAIN Registry |-> Registry[i].key]
LayerKeySet == Range(LayerNames)
Meta(key) == Registry[CHOOSE i \in DOMAIN Registry : Registry[i].key = key]

\* syns = [layer_key] + list(meta.get("synonyms") or [])
Syns(meta) == <<meta.keyChars>> \o meta.synonyms

(***************************************************************************)
(* _classify_intents                                                       *)
(***************************************************************************)
HideVocab == <<W_hide, W_off, W_remove, W_turn_off, W_disable>>

\* re.search(r"\b(clear|reset|remove\s+all)\b", text)
ClearPattern(text) ==
    \/ SearchWord(text, {W_clear, W_reset})
    \/ \E i \in 1..(Len(text) + 1) :
          /\ OccursAt(W_remove, text, i)
          /\ Boundary(text, i)
          /\ \E j \in SpaceRunEnds(text, i + Len(W_remove)) :
                OccursAt(W_all, text, j) /\ Boundary(text, j + Len(W_all))

\* any(w in text for w in ["hide", "off", "remove", "turn off", "disable"])
WantsHide(text) == \E k \in DOMAIN HideVocab : Contains(text, HideVocab[k])

\* faulty variant of LayerMentioned: the synonyms are ignored
LayerMentionedKeyOnly(meta, text) == Contains(text, meta.keyChars)
\* any(s in text for s in syns)
LayerMentioned(meta, text) == \E k \in DOMAIN Syns(meta) : Contains(text, Syns(meta)[k])

ClearIntent == [type |-> "clear_all"]
LayerIntent(type, layer) == [type |-> type, layer |-> layer]

\* faulty variant of LayerIntents: only the last mentioned layer follows the hide word
LayerIntentsPerLayer(text) ==
    LET hit == SelectSeq(Registry, LAMBDA meta : LayerMentioned(meta, text))
    IN  [i \in DOMAIN hit |->
            LayerIntent(IF WantsHide(text) /\ i = Len(hit) THEN "hide_layer" ELSE "show_layer",
                        hit[i].key)]

\* the layer intents of the registry loop, in registry order
LayerIntents(text) ==
    LET hit == SelectSeq(Registry, LAMBDA meta : LayerMentioned(meta, text))
    IN  [i \in DOMAIN hit |->
            LayerIntent(IF WantsHide(text) THEN "hide_layer" ELSE "show_layer", hit[i].key)]

\* faulty variant of ClassifyIntents: a clear request suppresses the layer intents
ClassifyIntentsExclusive(msg) ==
    LET text == Strip(Lower(msg))
    IN  IF ClearPattern(text) THEN <<ClearIntent>> ELSE LayerIntents(text)

ClassifyIntents(msg) ==
    LET text == Strip(Lower(msg))
    IN  (IF ClearPattern(text) THEN <<ClearIntent>> ELSE <<>>) \o LayerIntents(text)


(***************************************************************************)
(* The upstream data, as the feature helpers return it.  A feature is its  *)
(* properties; a property that is missing, None or "" is "".               *)
(***************************************************************************)
\* _get_dengue_features / _get_planning_features: [] without a token or on any failure
GetDengueFeatures == IF onemapUp THEN dengueUpstream ELSE <<>>
GetPlanningFeatures == IF onemapUp THEN planningUpstream ELSE <<>>

\* p.get('DESCRIPTION') or p.get('NAME') or p.get('Description') or p.get('Name')
DengueName(p) ==
    IF p.DESCRIPTION # "" THEN p.DESCRIPTION
    ELSE IF p.NAME # "" THEN p.NAME
    ELSE IF p.Description # "" THEN p.Description
    ELSE p.Name
\* p.get('name')
PlanningName(p) == p.name

\* names = [str(name) for each feature whose name is truthy]
DengueNames(feats) ==
    LET named == SelectSeq(feats, LAMBDA p : DengueName(p) # "")
    IN  [i \in DOMAIN named |-> DengueName(named[i])]
PlanningNames(feats) ==
    LET named == SelectSeq(feats, LAMBDA p : PlanningName(p) # "")
    IN  [i \in DOMAIN named |-> PlanningName(named[i])]

\* faulty variant of Unique: no de-duplication
UniqueKeepsAll(names) == names
\* the de-dup loop: when it reaches names[i], `seen` holds names[1..i-1], so names[i]
\* is appended to `unique` exactly when no earlier name equals it
NotSeen(names, i) == \A j \in 1..(i - 1) : names[j] # names[i]
Unique(names) ==
    LET kept == SelectSeq([i \in DOMAIN names |-> i], LAMBDA i : NotSeen(names, i))
    IN  [k \in DOMAIN kept |-> names[kept[k]]]

\* unique[:max_items] for max_items >= 0
Sample(unique, max_items) == Take(unique, max_items)

(***************************************************************************)
(* The grounding context, rendered as chunks.                              *)
(***************************************************************************)
NL == "\n"
Bullet == "- "

\* "\n".join(f"- {n}" for n in sample)
BulletLines(sample) ==
    [p \in 1..(IF sample = <<>> THEN 0 ELSE 3 * Len(sample) - 1) |->
        IF p % 3 = 1 THEN Bullet
        ELSE IF p % 3 = 2 THEN sample[(p + 1) \div 3]
        ELSE NL]

\* faulty variant of DengueContext: the count taken after the truncation
DengueContextClamped(names, max_items) ==
    LET sample == Sample(Unique(names), max_items)
    IN  <<"Latest dengue clusters", ":", " ", ToString(Len(sample)), " ", "unique", " clusters.",
          NL, "List (first ", ToString(Len(sample)), ")", ":", NL>> \o BulletLines(sample)

\* f"Latest dengue clusters: {total} unique clusters.\nList (first {len(sample)}):\n{lines}"
DengueContext(names, max_items) ==
    LET unique == Unique(names)
        total  == Len(unique)
        sample == Sample(unique, max_items)
    IN  <<"Latest dengue clusters", ":", " ", ToString(total), " ", "unique", " clusters.", NL,
          "List (first ", ToString(Len(sample)), ")", ":", NL>> \o BulletLines(sample)

\* f"Planning areas (year={year}): {total} total.\nList (first {len(sample)}):\n{lines}"
PlanningContext(names, max_items, year) ==
    LET unique == Unique(names)
        total  == Len(unique)
        sample == Sample(unique, max_items)
    IN  <<"Planning areas (year=", year, ")", ":", " ", ToString(total), " ", "total", ".", NL,
          "List (first ", ToString(Len(sample)), ")", ":", NL>> \o BulletLines(sample)

BuildDengueContext(max_items) == DengueContext(DengueNames(GetDengueFeatures), max_items)
BuildPlanningContext(max_items, year) ==
    PlanningContext(PlanningNames(GetPlanningFeatures), max_items, year)

\* the registry's context_builder closures
Builder(key, max_items) ==
    IF key = "dengue" THEN BuildDengueContext(max_items)
    ELSE BuildPlanningContext(max_items, "2019")

(***************************************************************************)
(* Reading a context back: splitlines, startswith("- "), re.search.        *)
(***************************************************************************)
\* str.splitlines: the pieces between line breaks, without a last empty piece
SplitLines(t) ==
    LET breaks == SelectSeq([i \in DOMAIN t |-> i], LAMBDA i : t[i] = NL)
        n      == IF t = <<>> \/ t[Len(t)] = NL THEN Len(breaks) ELSE Len(breaks) + 1
    IN  [k \in 1..n |->
            SubSeq(t, IF k = 1 THEN 1 ELSE breaks[k - 1] + 1,
                      IF k <= Len(breaks) THEN breaks[k] - 1 ELSE Len(t))]

\* [ln for ln in ctx.splitlines() if ln.startswith("- ")]
BulletedLines(ctx) == SelectSeq(SplitLines(ctx), LAMBDA ln : ln # <<>> /\ ln[1] = Bullet)

IsSpaceChunk(c) == c \in {" ", NL, "\t"}
\* the numbers a context can hold
Counts == 0..(Len(dengueUpstream) + Len(planningUpstream))
IsDigits(c) == \E n \in Counts : ToString(n) = c
\* int(m.group(1))
ParseInt(c) == CHOOSE n \in Counts : ToString(n) = c

\* the first chunk at or after k that is not white space (Len(ctx) + 1 when none)
RECURSIVE SkipSpace(_, _)
SkipSpace(ctx, k) ==
    IF k <= Len(ctx) /\ IsSpaceChunk(ctx[k]) THEN SkipSpace(ctx, k + 1) ELSE k

\* r":\s*(\d+)\s*<word>" matches at chunk i
TotalMatchAt(ctx, word, i) ==
    /\ ctx[i] = ":"
    /\ LET j == SkipSpace(ctx, i + 1)
       IN  /\ j <= Len(ctx)
           /\ IsDigits(ctx[j])
           /\ LET e == SkipSpace(ctx, j + 1)
              IN  e <= Len(ctx) /\ ctx[e] = word

\* m = re.search(total_rx, ctx): None, or <<int(m.group(1))>> of the leftmost match
SearchTotal(ctx, word) ==
    LET hits == {i \in DOMAIN ctx : TotalMatchAt(ctx, word, i)}
    IN  IF hits = {} THEN None
        ELSE LET i == CHOOSE i \in hits : \A h \in hits : i <= h
             IN  Some(ParseInt(ctx[SkipSpace(ctx, i + 1)]))

(***************************************************************************)
(* The model backend's answers.                                            *)
(*   plain call:  [kind |-> "error"]  (transport error, non-2xx, bad body) *)
(*                [kind |-> "ok", content |-> None or <<characters>>]      *)
(*   tool call:   [kind |-> "error"], [kind |-> "nochoices"],              *)
(*                [kind |-> "message", content, tool_calls, function_call] *)
(*   an invocation: [name, arguments]; arguments is what json.loads makes  *)
(*   of the string: "invalid" (it raises), "nonobject" (null, a list, a    *)
(*   number), or an object with an optional layer and a fit that is        *)
(*   "absent", "true", "false" or "string".                                *)
(***************************************************************************)
NoCall == [kind |-> "nocall"]
EmptyObject == [json |-> "object", layer |-> None, fit |-> "absent"]

\* truthiness of an optional string, and of an optional character sequence
Truthy(opt) == opt # None /\ opt[1] # ""
TruthyChars(opt) == opt # None /\ opt[1] # <<>>

\* faulty variant of AzureOpenaiReply: the content is not stripped
AzureOpenaiReplyUnstripped(resp) ==
    IF ~azureConfigured THEN None
    ELSE IF resp.kind = "error" THEN None
    ELSE IF TruthyChars(resp.content) THEN Some(FlattenStr(resp.content[1]))
    ELSE None

\* _azure_openai_reply: None, or <<the stripped content>>
AzureOpenaiReply(resp) ==
    IF ~azureConfigured THEN None
    ELSE IF resp.kind = "error" THEN None
    ELSE IF TruthyChars(resp.content) THEN Some(FlattenStr(Strip(resp.content[1])))
    ELSE None

\* try: args = json.loads(args_str)  except Exception: args = {}
ParseArgs(arguments) == IF arguments.json = "invalid" THEN EmptyObject ELSE arguments

\* args.get(...) on a value that is no dict raises AttributeError
CallRaises(call) ==
    /\ call.name \in {"show_layer", "hide_layer"}
    /\ ParseArgs(call.arguments).json = "nonobject"

\* faulty variant of KnownLayer: any named layer is accepted
KnownLayerAny(args) == args.layer # None
\* layer in layer_names
KnownLayer(args) == args.layer # None /\ args.layer[1] \in LayerKeySet

\* the intents one entry of message.tool_calls adds
ToolCallIntents(call) ==
    LET args == ParseArgs(call.arguments)
    IN  IF call.name = "show_layer" THEN
            IF KnownLayer(args) THEN
                IF args.fit \in {"true", "false"}
                THEN <<[type |-> "show_layer", layer |-> args.layer[1], fit |-> (args.fit = "true")]>>
                ELSE <<LayerIntent("show_layer", args.layer[1])>>
            ELSE <<>>
        ELSE IF call.name = "hide_layer" THEN
            IF KnownLayer(args) THEN <<LayerIntent("hide_layer", args.layer[1])>> ELSE <<>>
        ELSE IF call.name = "clear_all" THEN <<ClearIntent>>
        ELSE <<>>

\* the intents of message.function_call (no fit)
FunctionCallIntents(call) ==
    LET args == ParseArgs(call.arguments)
    IN  IF call.name = "show_layer" /\ KnownLayer(args)
            THEN <<LayerIntent("show_layer", args.layer[1])>>
        ELSE IF call.name = "hide_layer" /\ KnownLayer(args)
            THEN <<LayerIntent("hide_layer", args.layer[1])>>
        ELSE IF call.name = "clear_all" THEN <<ClearIntent>>
        ELSE <<>>

\* reply_text = (message.get("content") or "").strip() or None
ReplyText(content) ==
    LET stripped == IF content = None THEN <<>> ELSE Strip(content[1])
    IN  IF stripped = <<>> THEN None ELSE Some(FlattenStr(stripped))

\* the parse of choices[0].message: None when an exception reaches the outer except
ParseToolMessage(m) ==
    LET fromTools == Concat([i \in DOMAIN m.tool_calls |-> ToolCallIntents(m.tool_calls[i])])
        legacy    == fromTools = <<>> /\ m.function_call # None
        raises    == \/ \E i \in DOMAIN m.tool_calls : CallRaises(m.tool_calls[i])
                     \/ legacy /\ CallRaises(m.function_call[1])
        intents   == IF legacy THEN FunctionCallIntents(m.function_call[1]) ELSE fromTools
    IN  IF raises THEN None
        ELSE Some([reply |-> ReplyText(m.content), intents |-> intents])

\* _azure_openai_chat_with_tools: None, or <<[reply, intents]>>
AzureOpenaiChatWithTools(resp) ==
    IF ~azureConfigured THEN None
    ELSE IF resp.kind = "error" THEN None
    ELSE IF resp.kind = "nochoices" THEN Some([reply |-> None, intents |-> <<>>])
    ELSE ParseToolMessage(resp)


(***************************************************************************)
(* chat_api: the deterministic pattern rules.                              *)
(***************************************************************************)
ContextMax == 100         \* builder(100) of the grounding context
ListMax == 300            \* builder(300) of the list flow
ListCap == 100            \* lines[:100]
SummaryMax == 50          \* builder(50) of the summarize flow
ExamplesCap == 5          \* [...][:5]

\* _detect_layers: the mentioned layers, every layer when none is mentioned
DetectLayers(txt) ==
    LET hit == SelectSeq(Registry, LAMBDA meta : LayerMentioned(meta, txt))
    IN  IF hit # <<>> THEN [i \in DOMAIN hit |-> hit[i].key] ELSE LayerNames

\* faulty variant of ListPattern: "show" left out of the list pattern
ListPatternListOnly(low) == SearchWord(low, {W_list})
\* re.search(r"\b(list|show)\b", low), re.search(r"\b(summarize|summary)\b", low)
ListPattern(low) == SearchWord(low, {W_list, W_show})
SummaryPattern(low) == SearchWord(low, {W_summarize, W_summary})

LineStr(ln) == FlattenStr(ln)

\* f"{title}:\n" + "\n".join(lines[:100]), for a layer whose context has bulleted lines
ListSection(key) ==
    LET lines == BulletedLines(Builder(key, ListMax))
    IN  IF lines = <<>> THEN <<>>
        ELSE <<FlattenStr(Meta(key).title) \o ":\n"
               \o JoinStr([i \in DOMAIN Take(lines, ListCap) |-> LineStr(lines[i])], "\n")>>

\* the list flow: None, or <<"\n\n".join(bucket)>>
ListReply(targets) ==
    LET bucket == Concat([i \in DOMAIN targets |-> ListSection(targets[i])])
    IN  IF bucket = <<>> THEN None ELSE Some(JoinStr(bucket, "\n\n"))

\* f"{title}: {total} items." + (f" Examples: {', '.join(examples)}." if examples else "")
SummaryPiece(key) ==
    LET ctx      == Builder(key, SummaryMax)
        m        == SearchTotal(ctx, Meta(key).total_word)
        total    == IF m = None THEN 0 ELSE m[1]
        lines    == BulletedLines(ctx)
        examples == Take([i \in DOMAIN lines |-> FlattenStr(Drop(lines[i], 1))], ExamplesCap)
    IN  IF total = 0 THEN <<>>
        ELSE <<FlattenStr(Meta(key).title) \o ": " \o ToString(total) \o " items."
               \o (IF examples = <<>> THEN ""
                   ELSE " Examples: " \o JoinStr(examples, ", ") \o ".")>>

\* the summarize flow: None, or <<" ".join(pieces)>>
SummaryReply(targets) ==
    LET pieces == Concat([i \in DOMAIN targets |-> SummaryPiece(targets[i])])
    IN  IF pieces = <<>> THEN None ELSE Some(JoinStr(pieces, " "))

\* faulty variant of PatternReplyTools: the summarize flow is tried before the list flow
PatternReplyToolsSummaryFirst(msg) ==
    LET low     == Lower(msg)
        targets == DetectLayers(low)
        summed  == IF SummaryPattern(low) THEN SummaryReply(targets) ELSE None
    IN  IF Truthy(summed) THEN summed
        ELSE IF ListPattern(low) THEN ListReply(targets)
        ELSE None

\* the tool-calling branch: list flow, then summarize flow if there is still no reply
PatternReplyTools(msg) ==
    LET low     == Lower(msg)
        targets == DetectLayers(low)
        listed  == IF ListPattern(low) THEN ListReply(targets) ELSE None
    IN  IF Truthy(listed) THEN listed
        ELSE IF SummaryPattern(low) THEN SummaryReply(targets)
        ELSE None

\* the rule-based branch: list flow, elif summarize flow
PatternReplyRules(msg) ==
    LET low     == Lower(msg)
        targets == DetectLayers(low)
    IN  IF ListPattern(low) THEN ListReply(targets)
        ELSE IF SummaryPattern(low) THEN SummaryReply(targets)
        ELSE None

\* the builder calls the pattern rules make
PatternBuilderCalls(msg, tools) ==
    LET low     == Lower(msg)
        targets == DetectLayers(low)
        listed  == ListPattern(low)
        summed  == /\ SummaryPattern(low)
                   /\ IF tools THEN ~(listed /\ Truthy(ListReply(targets))) ELSE ~listed
    IN  (IF listed THEN Len(targets) ELSE 0) + (IF summed THEN Len(targets) ELSE 0)

(***************************************************************************)
(* chat_api: the fixed phrases of the intents.                             *)
(***************************************************************************)
Phrase(it) ==
    IF it.type = "clear_all" THEN <<"Clearing map overlays.">>
    ELSE IF it.type = "show_layer" /\ it.layer = "dengue"
        THEN <<"Showing dengue hotspots on the map.">>
    ELSE IF it.type = "hide_layer" /\ it.layer = "dengue" THEN <<"Hiding dengue hotspots.">>
    ELSE IF it.type = "show_layer" /\ it.layer = "planning"
        THEN <<"Showing planning area boundaries.">>
    ELSE IF it.type = "hide_layer" /\ it.layer = "planning"
        THEN <<"Hiding planning area boundaries.">>
    ELSE <<>>

\* " ".join(phrases) when there are phrases
PhraseReply(intents) ==
    LET phrases == Concat([i \in DOMAIN intents |-> Phrase(intents[i])])
    IN  IF phrases = <<>> THEN None ELSE Some(JoinStr(phrases, " "))

\* faulty variant of StaticReply: the last fallback left empty
StaticReplyMissing == ""
StaticReply == "Here to help with dengue hotspots and planning areas."
EmptyPrompt == "Please type a question."


(***************************************************************************)
(* chat_api                                                                *)
(***************************************************************************)
\* faulty variant of ToolBranch: the extractor's intents are appended to the orchestrator's
ToolBranchMixed(msg, tool_out, pr) ==
    LET intents == tool_out.intents \o ClassifyIntents(msg)
        second  == IF Truthy(tool_out.reply) THEN None ELSE AzureOpenaiReply(pr)
        reply2  == IF Truthy(tool_out.reply) THEN tool_out.reply
                   ELSE IF Truthy(second) THEN second ELSE tool_out.reply
        reply3  == IF Truthy(reply2) THEN reply2 ELSE PatternReplyTools(msg)
    IN  [reply   |-> IF Truthy(reply3) THEN reply3[1] ELSE "",
         intents |-> intents,
         calls   |-> [builder |-> Len(Registry)
                                  + (IF Truthy(reply2) THEN 0 ELSE PatternBuilderCalls(msg, TRUE)),
                      tools   |-> 1,
                      plain   |-> IF Truthy(tool_out.reply) THEN 0 ELSE 1]]

\* the branch taken when tool_out is not None
ToolBranch(msg, tool_out, pr) ==
    LET intents == IF tool_out.intents # <<>> THEN tool_out.intents ELSE ClassifyIntents(msg)
        second  == IF Truthy(tool_out.reply) THEN None ELSE AzureOpenaiReply(pr)
        reply2  == IF Truthy(tool_out.reply) THEN tool_out.reply
                   ELSE IF Truthy(second) THEN second ELSE tool_out.reply
        reply3  == IF Truthy(reply2) THEN reply2 ELSE PatternReplyTools(msg)
    IN  [reply   |-> IF Truthy(reply3) THEN reply3[1] ELSE "",
         intents |-> intents,
         calls   |-> [builder |-> Len(Registry)
                                  + (IF Truthy(reply2) THEN 0 ELSE PatternBuilderCalls(msg, TRUE)),
                      tools   |-> 1,
                      plain   |-> IF Truthy(tool_out.reply) THEN 0 ELSE 1]]

\* the branch taken when tool_out is None
RuleBranch(msg, pr) ==
    LET intents     == ClassifyIntents(msg)
        reply1      == PatternReplyRules(msg)
        reply2      == IF ~Truthy(reply1) /\ intents # <<>> /\ PhraseReply(intents) # None
                       THEN PhraseReply(intents) ELSE reply1
        azure_reply == AzureOpenaiReply(pr)
        reply3      == IF Truthy(azure_reply) /\ ~Truthy(reply2) THEN azure_reply ELSE reply2
    IN  [reply   |-> IF Truthy(reply3) THEN reply3[1] ELSE StaticReply,
         intents |-> intents,
         calls   |-> [builder |-> Len(Registry) + PatternBuilderCalls(msg, FALSE),
                      tools   |-> IF azureConfigured THEN 1 ELSE 0,
                      plain   |-> IF azureConfigured THEN 1 ELSE 0]]

\* the handler: tr and pr are what the backend answers if it is asked
ChatResult(msg, tr, pr) ==
    IF msg = <<>>
    THEN [reply |-> EmptyPrompt, intents |-> <<>>,
          calls |-> [builder |-> 0, tools |-> 0, plain |-> 0]]
    ELSE LET tool_out == AzureOpenaiChatWithTools(tr)
         IN  IF tool_out # None THEN ToolBranch(msg, tool_out[1], pr)
             ELSE RuleBranch(msg, pr)

(***************************************************************************)
(* welcome_message                                                         *)
(***************************************************************************)
WelcomeMax == 60          \* builder(60) of the prompt's context
WelcomeTotalsMax == 30    \* builder(30) of the fallback
Intro == "Welcome. Explore the map to see available layers, "
         \o "and ask the assistant for quick summaries or lists."

\* bits.append(f"{total} {title.lower()}") when the total pattern matches
WelcomeBit(meta) ==
    LET m == SearchTotal(Builder(meta.key, WelcomeTotalsMax), meta.total_word)
    IN  IF m = None THEN <<>>
        ELSE <<ToString(m[1]) \o " " \o FlattenStr(Lower(meta.title))>>

WelcomeFallback ==
    LET bits == Concat([i \in DOMAIN Registry |-> WelcomeBit(Registry[i])])
    IN  IF bits # <<>>
        THEN Intro \o " For context, currently tracked: " \o JoinStr(bits, ", ") \o "."
        ELSE Intro

WelcomeResult(pr) ==
    LET reply == AzureOpenaiReply(pr)
    IN  [reply |-> IF Truthy(reply) THEN reply[1] ELSE WelcomeFallback,
         calls |-> [builder |-> Len(Registry) + (IF Truthy(reply) THEN 0 ELSE Len(Registry)),
                    tools   |-> 0,
                    plain   |-> IF azureConfigured THEN 1 ELSE 0]]


(***************************************************************************)
(* The inputs the handlers are checked against.                            *)
(***************************************************************************)
BigRaw == 120       \* raw names of the large data state
BigUnique == 100    \* unique names among them
LongList == 103     \* unique names of a data state longer than the list cap

\* words joined by a separator
RECURSIVE Sentence(_, _)
Sentence(ws, sep) ==
    IF ws = <<>> THEN <<>>
    ELSE IF Len(ws) = 1 THEN ws[1]
    ELSE ws[1] \o sep \o Sentence(Tail(ws), sep)

Sentences(vocab, seps) ==
    {Sentence(ws, sep) : ws \in SeqsUpTo(vocab, MaxWords) \ {<<>>}, sep \in seps}

\* the same message shouted, with white space around it
Shout(m) == <<" ">> \o [i \in DOMAIN m |-> UpperChar(m[i])] \o <<" ", "\n">>

ClassifyVocab ==
    {W_clear, W_reset, W_remove, W_all, W_hide, W_off, W_disable, W_show, W_list,
     W_dengue, W_clusters, W_planning, W_boundary, W_office, W_hello}
ClassifySeps == {<<" ">>, <<"_">>, <<" ", "\t">>}
ClassifyExtras ==
    {<<>>, <<" ">>,
     Sentence(<<W_show, W_dengue, W_and, W_hide, W_planning>>, <<" ">>),
     Sentence(<<W_remove, W_all, W_planning_area>>, <<" ">>),
     Sentence(<<W_turn_off, W_hotspot>>, <<" ">>),
     Sentence(<<W_clear, W_boundaries, W_please>>, <<" ">>)}
ClassifyMessages ==
    LET base == Sentences(ClassifyVocab, ClassifySeps)
    IN  base \cup {Shout(m) : m \in base} \cup ClassifyExtras

ChatVocab == {W_show, W_summary, W_hide, W_dengue, W_planning}
ChatExtras ==
    {<<>>, <<" ">>, W_hello, W_clear,
     Sentence(<<W_clear, W_dengue>>, <<" ">>),
     Sentence(<<W_show, W_clusters>>, <<" ">>),
     Shout(W_clear),
     Sentence(<<W_list, W_summary>>, <<" ">>),
     Sentence(<<W_list, W_planning, W_areas>>, <<" ">>),
     Sentence(<<W_list, W_dengue, W_and, W_planning>>, <<" ">>),
     Sentence(<<W_summarize, W_boundaries>>, <<" ">>)}
ChatMessages == Sentences(ChatVocab, {<<" ">>}) \cup ChatExtras

\* dengue features by their four candidate properties
DengueFeature(d, n, d2, n2) == [DESCRIPTION |-> d, NAME |-> n, Description |-> d2, Name |-> n2]
PlanningFeature(n) == [name |-> n]
DenguePool ==
    {DengueFeature("Bedok", "", "", ""), DengueFeature("", "Tampines", "", ""),
     DengueFeature("", "", "", ""), DengueFeature("", "", "", "Woodlands"),
     DengueFeature("", "", "Tampines", "Yishun")}
PlanningPool ==
    {PlanningFeature("Bedok"), PlanningFeature("Tampines"), PlanningFeature("Woodlands"),
     PlanningFeature("")}

\* raw names of which the first `unique` are distinct and the rest repeat them
Numbered(raw, unique) == [i \in 1..raw |-> "Area " \o ToString(((i - 1) % unique) + 1)]
BigPlanning == [i \in 1..BigRaw |-> PlanningFeature(Numbered(BigRaw, BigUnique)[i])]
BigDengue == [i \in 1..BigRaw |-> DengueFeature("", Numbered(BigRaw, BigUnique)[i], "", "")]
LongPlanning == [i \in 1..LongList |-> PlanningFeature(Numbered(LongList, LongList)[i])]

\* the data states of a chat or welcome request
ChatDengue ==
    {<<>>, <<DengueFeature("", "", "", ""), DengueFeature("Bedok", "", "", "")>>,
     <<DengueFeature("", "Tampines", "", ""), DengueFeature("Bedok", "Tampines", "", ""),
       DengueFeature("", "", "Tampines", "Yishun")>>}
ChatPlanning ==
    {<<>>,
     <<PlanningFeature("Bedok"), PlanningFeature("Tampines"), PlanningFeature("Woodlands")>>,
     <<PlanningFeature("Bedok"), PlanningFeature("Tampines"), PlanningFeature("Bedok"),
       PlanningFeature(""), PlanningFeature("Woodlands")>>,
     LongPlanning}

\* model answers
Contents == {None, Some(<<>>), Some(<<" ", "\n">>), Some(<<" ","S","u","r","e","."," ">>)}
PlainResponses == {[kind |-> "error"]} \cup {[kind |-> "ok", content |-> c] : c \in Contents}

Object(layer, fit) == [json |-> "object", layer |-> layer, fit |-> fit]
Invocation(name, arguments) == [name |-> name, arguments |-> arguments]
CallPool ==
    {Invocation("show_layer", Object(Some("dengue"), "absent")),
     Invocation("show_layer", Object(Some("dengue"), "true")),
     Invocation("show_layer", Object(Some("planning"), "string")),
     Invocation("show_layer", Object(Some("mars"), "false")),
     Invocation("show_layer", EmptyObject),
     Invocation("hide_layer", Object(Some("planning"), "absent")),
     Invocation("hide_layer", Object(Some("mars"), "absent")),
     Invocation("clear_all", EmptyObject),
     Invocation("zoom", Object(Some("dengue"), "absent")),
     Invocation("show_layer", [json |-> "invalid"]),
     Invocation("clear_all", [json |-> "invalid"]),
     Invocation("hide_layer", [json |-> "nonobject"]),
     Invocation("clear_all", [json |-> "nonobject"])}
LegacyPool ==
    {Invocation("show_layer", Object(Some("dengue"), "true")),
     Invocation("hide_layer", Object(Some("mars"), "absent")),
     Invocation("clear_all", EmptyObject),
     Invocation("show_layer", [json |-> "nonobject"])}

ToolMessage(content, tool_calls, function_call) ==
    [kind |-> "message", content |-> content, tool_calls |-> tool_calls,
     function_call |-> function_call]
ToolResponses ==
    {[kind |-> "error"], [kind |-> "nochoices"]}
    \cup {ToolMessage(c, tc, fc) :
            c \in {None, Some(<<" ", "\n">>), Some(<<" ","S","u","r","e","."," ">>)},
            tc \in SeqsUpTo(CallPool, MaxCalls),
            fc \in {None} \cup {Some(f) : f \in LegacyPool}}

\* the answers a chat request is checked against
ChatToolResponses ==
    {[kind |-> "error"], [kind |-> "nochoices"],
     ToolMessage(Some(<<" ","S","u","r","e","."," ">>),
                 <<Invocation("hide_layer", [json |-> "nonobject"])>>, None)}
    \cup {ToolMessage(c, tc, None) :
            c \in {None, Some(<<" ","S","u","r","e","."," ">>)},
            tc \in {<<>>,
                    <<Invocation("show_layer", Object(Some("dengue"), "true"))>>,
                    <<Invocation("show_layer", Object(Some("mars"), "absent"))>>,
                    <<Invocation("hide_layer", Object(Some("planning"), "absent")),
                      Invocation("clear_all", EmptyObject)>>}}
ChatPlainResponses ==
    {[kind |-> "error"], [kind |-> "ok", content |-> Some(<<" ", "\n">>)],
     [kind |-> "ok", content |-> Some(<<"A","s","k"," ","m","e",".">>)]}

MaxItemsValues == (0..MaxItems) \cup {WelcomeTotalsMax, SummaryMax, WelcomeMax, ContextMax, ListMax}

(***************************************************************************)
(* The state machine.  A request is handled in one step, from the idle     *)
(* state; Respond delivers the response and nothing of it is kept.         *)
(***************************************************************************)
Idle ==
    /\ op = "idle" /\ message = <<>> /\ toolResponse = NoCall /\ plainResponse = NoCall
    /\ arg = None /\ out = None /\ calls = [builder |-> 0, tools |-> 0, plain |-> 0]

Environment == <<azureConfigured, onemapUp, dengueUpstream, planningUpstream>>

Init ==
    /\ azureConfigured \in BOOLEAN
    /\ onemapUp \in BOOLEAN
    /\ dengueUpstream \in ChatDengue
    /\ planningUpstream \in ChatPlanning
    /\ onemapUp = FALSE => dengueUpstream = <<>> /\ planningUpstream = <<>>
    /\ Idle

ChatApi ==
    /\ op = "idle"
    /\ \E msg \in ChatMessages,
          tr \in IF azureConfigured THEN ChatToolResponses ELSE {NoCall},
          pr \in IF azureConfigured THEN ChatPlainResponses ELSE {NoCall} :
          /\ op' = "chat"
          /\ message' = msg
          /\ out' = ChatResult(msg, tr, pr)
          /\ calls' = out'.calls
          /\ toolResponse' = IF calls'.tools = 1 THEN tr ELSE NoCall
          /\ plainResponse' = IF calls'.plain = 1 THEN pr ELSE NoCall
    /\ UNCHANGED <<Environment, arg>>

WelcomeMessage ==
    /\ op = "idle"
    /\ \E pr \in IF azureConfigured THEN PlainResponses ELSE {NoCall} :
          /\ op' = "welcome"
          /\ out' = WelcomeResult(pr)
          /\ calls' = out'.calls
          /\ plainResponse' = IF calls'.plain = 1 THEN pr ELSE NoCall
    /\ UNCHANGED <<Environment, message, toolResponse, arg>>

Respond ==
    /\ op # "idle"
    /\ op' = "idle" /\ message' = <<>> /\ toolResponse' = NoCall /\ plainResponse' = NoCall
    /\ arg' = None /\ out' = None /\ calls' = [builder |-> 0, tools |-> 0, plain |-> 0]
    /\ UNCHANGED Environment

Next == ChatApi \/ WelcomeMessage \/ Respond
Spec == Init /\ [][Next]_vars

(***************************************************************************)
(* The rule-based extractor alone, over the generated messages.            *)
(***************************************************************************)
InitClassify ==
    /\ azureConfigured = FALSE /\ onemapUp = FALSE
    /\ dengueUpstream = <<>> /\ planningUpstream = <<>>
    /\ Idle

Classify ==
    /\ op = "idle"
    /\ \E msg \in ClassifyMessages :
          /\ op' = "classify"
          /\ message' = msg
          /\ out' = [intents |-> ClassifyIntents(msg)]
    /\ UNCHANGED <<Environment, toolResponse, plainResponse, arg, calls>>

NextClassify == Classify \/ Respond
SpecClassify == InitClassify /\ [][NextClassify]_vars

(***************************************************************************)
(* The context builders alone, over the generated data states.             *)
(***************************************************************************)
InitContext ==
    /\ azureConfigured = FALSE
    /\ onemapUp \in BOOLEAN
    /\ \/ dengueUpstream \in SeqsUpTo(DenguePool, MaxFeats) \cup {BigDengue}
          /\ planningUpstream = <<>>
       \/ dengueUpstream = <<>>
          /\ planningUpstream \in SeqsUpTo(PlanningPool, MaxFeats) \cup {BigPlanning}
    /\ Idle

BuildContext ==
    /\ op = "idle"
    /\ \E key \in LayerKeySet, max_items \in MaxItemsValues :
          /\ op' = "context"
          /\ arg' = Some([layer |-> key, max_items |-> max_items])
          /\ out' = [ctx |-> Builder(key, max_items)]
          /\ calls' = [builder |-> 1, tools |-> 0, plain |-> 0]
    /\ UNCHANGED <<Environment, message, toolResponse, plainResponse>>

NextContext == BuildContext \/ Respond
SpecContext == InitContext /\ [][NextContext]_vars

(***************************************************************************)
(* The orchestrator alone, over the generated model responses.             *)
(***************************************************************************)
InitTools ==
    /\ azureConfigured \in BOOLEAN /\ onemapUp = FALSE
    /\ dengueUpstream = <<>> /\ planningUpstream = <<>>
    /\ Idle

ChatWithTools ==
    /\ op = "idle"
    /\ \E tr \in IF azureConfigured THEN ToolResponses ELSE {NoCall} :
          /\ op' = "tools"
          /\ toolResponse' = tr
          /\ out' = [tool_out |-> AzureOpenaiChatWithTools(tr)]
          /\ calls' = [builder |-> 0, tools |-> IF azureConfigured THEN 1 ELSE 0, plain |-> 0]
    /\ UNCHANGED <<Environment, message, plainResponse, arg>>

NextTools == ChatWithTools \/ Respond
SpecTools == InitTools /\ [][NextTools]_vars


(***************************************************************************)
(* chat_api statement by statement.  op is the position in the handler,    *)
(* out the reply (None, or <<text>>) and the intents so far, and calls     *)
(* counts every attempt of a model call and every context built.  The data *)
(* does not change during a request, so what the pattern rules will answer *)
(* is fixed when the request arrives: out.rules holds it until the pattern *)
(* statement of the branch taken uses it.                                  *)
(***************************************************************************)
\* the answers of the pattern rules of both branches, and the contexts they build
PatternRules(msg) ==
    [tools      |-> PatternReplyTools(msg),
     toolsBuilt |-> PatternBuilderCalls(msg, TRUE),
     rules      |-> PatternReplyRules(msg),
     rulesBuilt |-> PatternBuilderCalls(msg, FALSE)]

StepMessages ==
    ChatExtras \cup {W_clear, W_hello, Sentence(<<W_show, W_dengue>>, <<" ">>),
                     Sentence(<<W_hide, W_planning>>, <<" ">>)}

\* the request arrives; the empty message is answered at once, any other message has
\* its grounding context built
ReceiveChat ==
    /\ op = "idle"
    /\ \E msg \in StepMessages :
          /\ message' = msg
          /\ IF msg = <<>>
             THEN /\ op' = "done"
                  /\ out' = [reply |-> Some(EmptyPrompt), intents |-> <<>>, rules |-> None]
                  /\ calls' = calls
             ELSE /\ op' = "tool_call"
                  /\ out' = [reply |-> None, intents |-> <<>>,
                             rules |-> Some(PatternRules(msg))]
                  /\ calls' = [calls EXCEPT !.builder = @ + Len(Registry)]
    /\ UNCHANGED <<Environment, toolResponse, plainResponse, arg>>

\* faulty variant of CallTools: a failed tool-calling call is tried again
CallToolsRetry ==
    /\ op = "tool_call"
    /\ calls.tools <= MaxCalls
    /\ \E tr \in IF azureConfigured THEN ChatToolResponses ELSE {NoCall} :
          LET tool_out == AzureOpenaiChatWithTools(tr)
          IN  /\ toolResponse' = tr
              /\ calls' = [calls EXCEPT !.tools = @ + (IF azureConfigured THEN 1 ELSE 0)]
              /\ IF tool_out = None
                 THEN /\ op' = IF azureConfigured THEN "tool_call" ELSE "rule_patterns"
                      /\ out' = out
                 ELSE /\ out' = [out EXCEPT
                                    !.reply = tool_out[1].reply,
                                    !.intents = IF tool_out[1].intents # <<>>
                                                THEN tool_out[1].intents
                                                ELSE ClassifyIntents(message)]
                      /\ op' = IF Truthy(tool_out[1].reply) THEN "tool_return"
                               ELSE "second_call"
    /\ UNCHANGED <<Environment, message, plainResponse, arg>>

\* tool_out = _azure_openai_chat_with_tools(...): one attempt, then the branch
CallTools ==
    /\ op = "tool_call"
    /\ \E tr \in IF azureConfigured THEN ChatToolResponses ELSE {NoCall} :
          LET tool_out == AzureOpenaiChatWithTools(tr)
          IN  /\ toolResponse' = tr
              /\ calls' = [calls EXCEPT !.tools = @ + (IF azureConfigured THEN 1 ELSE 0)]
              /\ IF tool_out = None
                 THEN /\ op' = "rule_patterns"
                      /\ out' = out
                 ELSE /\ out' = [out EXCEPT
                                    !.reply = tool_out[1].reply,
                                    !.intents = IF tool_out[1].intents # <<>>
                                                THEN tool_out[1].intents
                                                ELSE ClassifyIntents(message)]
                      /\ op' = IF Truthy(tool_out[1].reply) THEN "tool_return"
                               ELSE "second_call"
    /\ UNCHANGED <<Environment, message, plainResponse, arg>>

\* second = _azure_openai_reply(...) of the tool-calling branch
SecondCall ==
    /\ op = "second_call"
    /\ \E pr \in ChatPlainResponses :
          LET second == AzureOpenaiReply(pr)
          IN  /\ plainResponse' = pr
              /\ calls' = [calls EXCEPT !.plain = @ + 1]
              /\ out' = [out EXCEPT !.reply = IF Truthy(second) THEN second ELSE @]
              /\ op' = IF Truthy(second) THEN "tool_return" ELSE "tool_patterns"
    /\ UNCHANGED <<Environment, message, toolResponse, arg>>

\* the pattern rules of the tool-calling branch
ToolPatterns ==
    /\ op = "tool_patterns"
    /\ out' = [out EXCEPT !.reply = out.rules[1].tools]
    /\ calls' = [calls EXCEPT !.builder = @ + out.rules[1].toolsBuilt]
    /\ op' = "tool_return"
    /\ UNCHANGED <<Environment, message, toolResponse, plainResponse, arg>>

\* if not reply: reply = ""; return
ToolReturn ==
    /\ op = "tool_return"
    /\ out' = [out EXCEPT !.reply = IF Truthy(@) THEN @ ELSE Some("")]
    /\ op' = "done"
    /\ UNCHANGED <<Environment, message, toolResponse, plainResponse, arg, calls>>

\* the rule-based branch: the extractor's intents and the pattern rules
RulePatterns ==
    /\ op = "rule_patterns"
    /\ out' = [out EXCEPT !.reply = out.rules[1].rules, !.intents = ClassifyIntents(message)]
    /\ calls' = [calls EXCEPT !.builder = @ + out.rules[1].rulesBuilt]
    /\ op' = "phrases"
    /\ UNCHANGED <<Environment, message, toolResponse, plainResponse, arg>>

\* if not reply and intents: the joined phrases
Phrases ==
    /\ op = "phrases"
    /\ out' = [out EXCEPT !.reply =
                  IF ~Truthy(@) /\ out.intents # <<>> /\ PhraseReply(out.intents) # None
                  THEN PhraseReply(out.intents) ELSE @]
    /\ op' = "azure_reply"
    /\ UNCHANGED <<Environment, message, toolResponse, plainResponse, arg, calls>>

\* azure_reply = _azure_openai_reply(...) of the rule-based branch
AzureReply ==
    /\ op = "azure_reply"
    /\ \E pr \in IF azureConfigured THEN ChatPlainResponses ELSE {NoCall} :
          LET azure_reply == AzureOpenaiReply(pr)
          IN  /\ plainResponse' = pr
              /\ calls' = [calls EXCEPT !.plain = @ + (IF azureConfigured THEN 1 ELSE 0)]
              /\ out' = [out EXCEPT !.reply =
                            IF Truthy(azure_reply) /\ ~Truthy(@) THEN azure_reply ELSE @]
    /\ op' = "static"
    /\ UNCHANGED <<Environment, message, toolResponse, arg>>

\* if not reply: the static message; return
StaticMessage ==
    /\ op = "static"
    /\ out' = [out EXCEPT !.reply = IF Truthy(@) THEN @ ELSE Some(StaticReply)]
    /\ op' = "done"
    /\ UNCHANGED <<Environment, message, toolResponse, plainResponse, arg, calls>>

\* the response is delivered and nothing of the request is kept
ReturnChat ==
    /\ op = "done"
    /\ op' = "idle" /\ message' = <<>> /\ toolResponse' = NoCall /\ plainResponse' = NoCall
    /\ arg' = None /\ out' = None /\ calls' = [builder |-> 0, tools |-> 0, plain |-> 0]
    /\ UNCHANGED Environment

\* the statements of a request under way: the handler runs them without waiting
HandlerStep ==
    \/ CallTools \/ SecondCall \/ ToolPatterns \/ ToolReturn
    \/ RulePatterns \/ Phrases \/ AzureReply \/ StaticMessage \/ ReturnChat

NextSteps == ReceiveChat \/ HandlerStep
SpecSteps == Init /\ [][NextSteps]_vars /\ WF_vars(HandlerStep)


(***************************************************************************)
(* The pattern step of both branches of chat_api, applied to the same      *)
(* message and the same data.                                              *)
(***************************************************************************)
PatternStep ==
    /\ op = "idle"
    /\ \E msg \in ChatMessages \ {<<>>} :
          /\ op' = "patterns"
          /\ message' = msg
          /\ out' = PatternRules(msg)
          /\ calls' = [calls EXCEPT !.builder = out'.toolsBuilt + out'.rulesBuilt]
    /\ UNCHANGED <<Environment, toolResponse, plainResponse, arg>>

NextPatterns == PatternStep \/ Respond
SpecPatterns == Init /\ [][NextPatterns]_vars


(***************************************************************************)
(* The claims.  What the backend contributed to the current chat request,  *)
(* read from the recorded answers.                                         *)
(***************************************************************************)
NoCalls == [builder |-> 0, tools |-> 0, plain |-> 0]
IsChat == op = "chat"
Blank(content) == content = None \/ \A i \in DOMAIN content[1] : content[1][i] \in SpaceChars

\* the tool-calling call was not made, or it failed, or its parse raised
OrchestratorAbsent ==
    \/ toolResponse.kind \in {"nocall", "error"}
    \/ /\ toolResponse.kind = "message"
       /\ \E i \in DOMAIN toolResponse.tool_calls :
             /\ toolResponse.tool_calls[i].name \in {"show_layer", "hide_layer"}
             /\ toolResponse.tool_calls[i].arguments.json = "nonobject"
\* the tool-calling call returned a completion that holds neither an action nor text
OrchestratorEmpty ==
    \/ toolResponse.kind = "nochoices"
    \/ /\ toolResponse.kind = "message"
       /\ Blank(toolResponse.content)
       /\ toolResponse.tool_calls = <<>>
       /\ toolResponse.function_call = None
\* the plain call was not made, or it failed, or it returned no text
PlainSilent ==
    \/ plainResponse.kind \in {"nocall", "error"}
    \/ plainResponse.kind = "ok" /\ Blank(plainResponse.content)

\* C1: whenever the orchestrator yields absent (backend unconfigured, or its call fails),
\* the chat reply is a non-empty string for every message and every upstream data state;
\* the empty message is answered "Please type a question." with no intents, before any
\* context builder or model call is made.
C1_AbsentOrchestratorReplies ==
    IsChat =>
        /\ message = <<>> =>
              out.reply = "Please type a question." /\ out.intents = <<>> /\ calls = NoCalls
        /\ message # <<>> /\ OrchestratorAbsent =>
              out.reply # ""
C1_Witness ==
    /\ IsChat /\ message # <<>> /\ azureConfigured
    /\ toolResponse.kind = "error" /\ plainResponse.kind = "error"
    /\ out.intents = <<>>
    /\ out.reply = "Here to help with dengue hotspots and planning areas."

\* C2: for every non-empty message and every outcome of the orchestrator the chat reply
\* is non-empty: when the model text, the second model call and the pattern rules yield
\* nothing, the reply is the joined phrases of the intents, or else the static message.
C2_ReplyNeverEmpty ==
    IsChat /\ message # <<>> => out.reply # ""

\* C3 (as stated): with no backend configured, "show clusters" returns exactly
\* [show_layer dengue] and the reply "Showing dengue hotspots on the map.", whatever the
\* dengue data.
ShowClusters == Sentence(<<W_show, W_clusters>>, <<" ">>)
ShowDengue == [type |-> "show_layer", layer |-> "dengue"]
C3_ShowClustersPhrase ==
    IsChat /\ ~azureConfigured /\ message = ShowClusters =>
        /\ out.intents = <<ShowDengue>>
        /\ out.reply = "Showing dengue hotspots on the map."

\* the distinct names of the dengue data, in first-seen order, by halves
RECURSIVE RefDedup(_)
RefDedup(names) ==
    IF Len(names) <= 1 THEN names
    ELSE LET h == Len(names) \div 2
             l == RefDedup(SubSeq(names, 1, h))
             r == RefDedup(SubSeq(names, h + 1, Len(names)))
         IN  l \o SelectSeq(r, LAMBDA n : n \notin Range(l))
RefBullets(names) == JoinStr([i \in DOMAIN names |-> "- " \o names[i]], "\n")
RefDengueNames == IF onemapUp THEN RefDedup(DengueNames(dengueUpstream)) ELSE <<>>
RefPlanningNames == IF onemapUp THEN RefDedup(PlanningNames(planningUpstream)) ELSE <<>>

\* C3 (amended): with no backend configured, "show clusters" returns exactly
\* [show_layer dengue]; the reply is "Showing dengue hotspots on the map." when the
\* dengue context lists no name, and the section "Dengue Hotspots:" with the bulleted
\* dengue names when it lists one or more.
C3_ShowClustersAmended ==
    IsChat /\ ~azureConfigured /\ message = ShowClusters =>
        /\ out.intents = <<ShowDengue>>
        /\ RefDengueNames = <<>> => out.reply = "Showing dengue hotspots on the map."
        /\ RefDengueNames # <<>> =>
              out.reply = "Dengue Hotspots:\n" \o RefBullets(RefDengueNames)
C3_Witness ==
    /\ IsChat /\ ~azureConfigured /\ message = ShowClusters
    /\ out.intents = <<ShowDengue>>
    /\ out.reply = "Dengue Hotspots:\n- Tampines\n- Bedok"

\* C4: "clear" returns exactly [clear_all] and the reply "Clearing map overlays."
\* whenever the backend contributes no action and no text: unconfigured, its call
\* failed, or its call succeeded with neither tool calls nor content.
C4_ClearPhrase ==
    IsChat /\ message = W_clear /\ PlainSilent /\ (OrchestratorAbsent \/ OrchestratorEmpty) =>
        /\ out.intents = <<[type |-> "clear_all"]>>
        /\ out.reply = "Clearing map overlays."


\* the vocabulary of the claims, written out
RefSynonyms(key) ==
    IF key = "dengue" THEN {W_dengue, W_hotspot, W_cluster, W_clusters}
    ELSE {W_planning, W_planning_area, W_boundary, W_boundaries}
RefTitle(key) == IF key = "dengue" THEN "Dengue Hotspots" ELSE "Planning Areas (2019)"
RefNames(key) == IF key = "dengue" THEN RefDengueNames ELSE RefPlanningNames
RefMentions(key, low) == \E w \in RefSynonyms(key) : Contains(low, w)
RefHideWord(low) == \E w \in {W_hide, W_off, W_remove, W_turn_off, W_disable} : Contains(low, w)

\* w stands in low at i as a whole word: no word character before it or after it
SpelledAt(low, w, i) == i + Len(w) - 1 <= Len(low) /\ SubSeq(low, i, i + Len(w) - 1) = w
WholeAt(low, w, i) ==
    /\ SpelledAt(low, w, i)
    /\ i = 1 \/ low[i - 1] \notin WordChars
    /\ i + Len(w) > Len(low) \/ low[i + Len(w)] \notin WordChars
RefWholeWord(low, w) == \E i \in 1..(Len(low) - Len(w) + 1) : WholeAt(low, w, i)
\* "remove", white space, "all": a whole phrase
RefRemoveAll(low) ==
    \E i \in DOMAIN low, j \in DOMAIN low :
        /\ i + Len(W_remove) < j
        /\ SpelledAt(low, W_remove, i)
        /\ i = 1 \/ low[i - 1] \notin WordChars
        /\ \A k \in (i + Len(W_remove))..(j - 1) : low[k] \in SpaceChars
        /\ SpelledAt(low, W_all, j)
        /\ j + Len(W_all) > Len(low) \/ low[j + Len(W_all)] \notin WordChars
RefClearWord(low) == RefWholeWord(low, W_clear) \/ RefWholeWord(low, W_reset) \/ RefRemoveAll(low)
RefListWord(low) == RefWholeWord(low, W_list) \/ RefWholeWord(low, W_show)

\* the layers a message is about: those it mentions, every layer when it mentions none
RefTargets(low) ==
    LET hit == SelectSeq(<<"dengue", "planning">>, LAMBDA key : RefMentions(key, low))
    IN  IF hit = <<>> THEN <<"dengue", "planning">> ELSE hit

\* neither the tool-calling call nor the plain call gave text
NoModelText ==
    /\ \/ OrchestratorAbsent
       \/ toolResponse.kind = "nochoices"
       \/ toolResponse.kind = "message" /\ Blank(toolResponse.content)
    /\ PlainSilent

RefSection(key, names) == RefTitle(key) \o ":\n" \o RefBullets(names)

\* C5 (as stated): with no model text and a message matching the list/show pattern,
\* the reply is one section per layer the message mentions (every layer when it
\* mentions none): the title, a colon, and all the layer's deduplicated names as
\* bulleted lines in first-seen order.
C5_ListEveryTarget ==
    IsChat /\ message # <<>> /\ NoModelText /\ RefListWord(Lower(message)) =>
        LET targets == RefTargets(Lower(message))
        IN  out.reply =
                JoinStr([i \in DOMAIN targets |-> RefSection(targets[i], RefNames(targets[i]))],
                        "\n\n")

ListPlanningAreas == Sentence(<<W_list, W_planning, W_areas>>, <<" ">>)

\* C5 (amended): with no model text and a message matching the list/show pattern, the
\* reply is one section per targeted layer that has at least one name (the layers the
\* message mentions, every layer when it mentions none): the title, a colon, and the
\* first 100 of the layer's deduplicated names as bulleted lines in first-seen order,
\* provided some targeted layer has a name; "list planning areas" with names
\* [Bedok, Tampines, Woodlands] gives exactly the planning section.
C5_ListNamedTargets ==
    IsChat /\ message # <<>> /\ NoModelText /\ RefListWord(Lower(message)) =>
        LET targets == SelectSeq(RefTargets(Lower(message)), LAMBDA key : RefNames(key) # <<>>)
        IN  /\ targets # <<>> =>
                  out.reply =
                      JoinStr([i \in DOMAIN targets |->
                                  RefSection(targets[i], Take(RefNames(targets[i]), 100))],
                              "\n\n")
            /\ message = ListPlanningAreas
               /\ RefPlanningNames = <<"Bedok", "Tampines", "Woodlands">> =>
                  out.reply = "Planning Areas (2019):\n- Bedok\n- Tampines\n- Woodlands"
C5_Witness ==
    /\ IsChat /\ message = ListPlanningAreas /\ NoModelText /\ azureConfigured
    /\ Len(planningUpstream) = 5 /\ RefDengueNames # <<>>
    /\ out.reply = "Planning Areas (2019):\n- Bedok\n- Tampines\n- Woodlands"

\* the intents of a result that are about the layer `key`
IntentsFor(intents, key) ==
    SelectSeq(intents, LAMBDA it : it.type # "clear_all" /\ it.layer = key)

\* C6: if the lower-cased message contains a layer's key or one of its synonyms and none
\* of the hide words, _classify_intents returns exactly one intent for that layer, and
\* it is show_layer.
C6_DefaultShow ==
    op = "classify" =>
        \A key \in {"dengue", "planning"} :
            RefMentions(key, Lower(message)) /\ ~RefHideWord(Lower(message)) =>
                IntentsFor(out.intents, key) = <<[type |-> "show_layer", layer |-> key]>>
C6_Witness ==
    /\ op = "classify"
    /\ message = Shout(Sentence(<<W_show, W_clusters>>, <<"_">>))
    /\ out.intents = <<[type |-> "show_layer", layer |-> "dengue"]>>

\* C7: a message that holds a clear word (clear, reset, remove all, as whole words) and
\* mentions a layer gets both a clear_all intent and a show_layer or hide_layer intent
\* for that layer.
C7_ClearAndLayer ==
    op = "classify" /\ RefClearWord(Lower(message)) =>
        \A key \in {"dengue", "planning"} :
            RefMentions(key, Lower(message)) =>
                /\ \E i \in DOMAIN out.intents : out.intents[i].type = "clear_all"
                /\ \E i \in DOMAIN IntentsFor(out.intents, key) :
                      IntentsFor(out.intents, key)[i].type \in {"show_layer", "hide_layer"}
C7_Witness ==
    /\ op = "classify"
    /\ message = Sentence(<<W_remove, W_all, W_planning_area>>, <<" ">>)
    /\ out.intents = <<[type |-> "clear_all"], [type |-> "hide_layer", layer |-> "planning"]>>


\* the names a context builder is given, and the word after its count
GivenNames(key) ==
    IF key = "dengue" THEN DengueNames(GetDengueFeatures) ELSE PlanningNames(GetPlanningFeatures)
RefTotalWord(key) == IF key = "dengue" THEN "unique" ELSE "total"

\* C8: for every sequence of upstream names and every max_items >= 0, the context is
\* the reference: the count of its first line is the number of distinct names whatever
\* max_items is, and its bulleted lines are exactly the first min(max_items, total)
\* distinct names in first-seen order, one line each, after the two heading lines.
C8_ContextIsReference ==
    op = "context" =>
        LET key     == arg[1].layer
            unique  == RefDedup(GivenNames(key))
            shown   == Min(arg[1].max_items, Len(unique))
            lines   == SplitLines(out.ctx)
        IN  /\ SearchTotal(lines[1], RefTotalWord(key)) = Some(Cardinality(Range(GivenNames(key))))
            /\ Len(unique) = Cardinality(Range(GivenNames(key)))
            /\ Len(lines) = 2 + shown
            /\ \A i \in 1..shown : lines[2 + i] = <<"- ", unique[i]>>
            /\ BulletedLines(out.ctx) = [i \in 1..shown |-> <<"- ", unique[i]>>]
C8_Witness ==
    /\ op = "context" /\ onemapUp
    /\ arg[1] = [layer |-> "planning", max_items |-> 50]
    /\ Len(planningUpstream) = 120
    /\ SearchTotal(out.ctx, "total") = Some(100)
    /\ Len(BulletedLines(out.ctx)) = 50
    /\ BulletedLines(out.ctx)[50] = <<"- ", "Area 50">>

\* the actions of a response that name a known action and, for show and hide, a layer
\* of the registry, as (type, layer) pairs in the order of the response
RefValid(invocations) ==
    LET ok == SelectSeq(invocations, LAMBDA c :
                  \/ c.name = "clear_all"
                  \/ /\ c.name \in {"show_layer", "hide_layer"}
                     /\ c.arguments.layer \in {Some("dengue"), Some("planning")})
    IN  [i \in DOMAIN ok |->
            IF ok[i].name = "clear_all" THEN [type |-> "clear_all"]
            ELSE [type |-> ok[i].name, layer |-> ok[i].arguments.layer[1]]]
\* an intent without its fit
TypeAndLayer(it) ==
    IF it.type = "clear_all" THEN [type |-> "clear_all"] ELSE [type |-> it.type, layer |-> it.layer]
\* every invocation of the response carries an argument object
ArgumentObjects ==
    /\ \A i \in DOMAIN toolResponse.tool_calls :
          toolResponse.tool_calls[i].arguments.json = "object"
    /\ toolResponse.function_call # None => toolResponse.function_call[1].arguments.json = "object"

\* C9: every show_layer or hide_layer intent _azure_openai_chat_with_tools returns names
\* a layer of the registry, in the tool_calls shape and in the function_call shape; a
\* response whose invocations carry argument objects always yields a result, in which
\* the invocations naming an unknown layer are dropped and the valid invocations and the
\* stripped free text remain.
C9_UnknownLayersDropped ==
    op = "tools" =>
        /\ out.tool_out # None =>
              \A i \in DOMAIN out.tool_out[1].intents :
                  out.tool_out[1].intents[i].type \in {"show_layer", "hide_layer"} =>
                      out.tool_out[1].intents[i].layer \in {"dengue", "planning"}
        /\ toolResponse.kind = "message" /\ ArgumentObjects =>
              /\ out.tool_out # None
              /\ out.tool_out[1].reply =
                    IF Blank(toolResponse.content) THEN None ELSE Some("Sure.")
              /\ toolResponse.function_call = None =>
                    [i \in DOMAIN out.tool_out[1].intents |->
                        TypeAndLayer(out.tool_out[1].intents[i])]
                    = RefValid(toolResponse.tool_calls)
              /\ toolResponse.tool_calls = <<>> /\ toolResponse.function_call # None =>
                    out.tool_out[1].intents = RefValid(toolResponse.function_call)
C9_Witness ==
    /\ op = "tools"
    /\ toolResponse.kind = "message"
    /\ toolResponse.function_call = None
    /\ toolResponse.tool_calls =
          <<Invocation("show_layer", Object(Some("mars"), "false")),
            Invocation("hide_layer", Object(Some("planning"), "absent"))>>
    /\ out.tool_out =
          Some([reply |-> Some("Sure."),
                intents |-> <<[type |-> "hide_layer", layer |-> "planning"]>>])

\* the backend answered the plain call with text that is not blank
PlainText == plainResponse.kind = "ok" /\ ~Blank(plainResponse.content)

\* C10: the welcome reply is never empty: it is the model's non-empty text, or the fixed
\* preamble followed by one "<total> <title>" item per registered layer, whatever the
\* model outcome and the upstream data state.
C10_WelcomeNeverEmpty ==
    op = "welcome" =>
        /\ out.reply # ""
        /\ PlainText => out.reply = "Sure."
        /\ ~PlainText =>
              out.reply =
                  "Welcome. Explore the map to see available layers, and ask the assistant "
                  \o "for quick summaries or lists. For context, currently tracked: "
                  \o ToString(Len(RefDengueNames)) \o " dengue hotspots, "
                  \o ToString(Len(RefPlanningNames)) \o " planning areas (2019)."
C10_Witness ==
    /\ op = "welcome" /\ azureConfigured /\ onemapUp
    /\ plainResponse = [kind |-> "ok", content |-> Some(<<" ", "\n">>)]
    /\ out.reply =
          "Welcome. Explore the map to see available layers, and ask the assistant "
          \o "for quick summaries or lists. For context, currently tracked: "
          \o "2 dengue hotspots, 3 planning areas (2019)."


\* the message holds a summarize word as a whole word
RefSummaryWord(low) == RefWholeWord(low, W_summarize) \/ RefWholeWord(low, W_summary)

\* C11: a tool-calling call that ends in a transport error, a non-2xx status or a body
\* that is no completion with at least one choice makes the orchestrator return absent,
\* as an unconfigured backend does without a network call; chat_api then takes the
\* rule-based path, whose reply is never empty and is the static message when the
\* message matches no pattern, yields no intent and the plain call gives no text.
C11_FailedCallIsAbsent ==
    IsChat /\ message # <<>> =>
        /\ ~azureConfigured => calls.tools = 0 /\ calls.plain = 0
        /\ toolResponse.kind \in {"nocall", "error", "nochoices"} =>
              /\ out.reply # ""
              /\ /\ PlainSilent /\ out.intents = <<>>
                 /\ ~RefListWord(Lower(message)) /\ ~RefSummaryWord(Lower(message))
                 => out.reply = "Here to help with dengue hotspots and planning areas."

\* the invocations whose arguments parsed into an argument object
RefParsed(invocations) == SelectSeq(invocations, LAMBDA c : c.arguments.json = "object")

\* C12: an invocation whose arguments are invalid JSON, or JSON that is no object, is
\* skipped alone: it gives no intent whatever its action name, and the intents of the
\* other invocations and the free text of the response are returned as without it.
C12_ParseFailureSkipsOne ==
    op = "tools" /\ toolResponse.kind = "message" /\ toolResponse.function_call = None =>
        /\ out.tool_out # None
        /\ out.tool_out[1].reply = IF Blank(toolResponse.content) THEN None ELSE Some("Sure.")
        /\ [i \in DOMAIN out.tool_out[1].intents |-> TypeAndLayer(out.tool_out[1].intents[i])]
           = RefValid(RefParsed(toolResponse.tool_calls))


\* the intents the rules read from a message: clear_all for a clear word, then one
\* intent per mentioned layer in registry order, all hide_layer or all show_layer
RefClassify(low) ==
    LET hit == SelectSeq(<<"dengue", "planning">>, LAMBDA key : RefMentions(key, low))
    IN  (IF RefClearWord(low) THEN <<[type |-> "clear_all"]>> ELSE <<>>)
        \o [i \in DOMAIN hit |->
               [type |-> IF RefHideWord(low) THEN "hide_layer" ELSE "show_layer",
                layer |-> hit[i]]]

\* the valid intents the orchestrator drew from the recorded answer, none when absent
RefOrchestratorIntents ==
    IF OrchestratorAbsent \/ toolResponse.kind # "message" THEN <<>>
    ELSE RefValid(toolResponse.tool_calls)

\* C13: the intents of a chat result are the orchestrator's intents, in the order the
\* model returned them, exactly when the orchestrator ran and returned at least one
\* valid intent; otherwise (orchestrator absent, or no action, or only dropped actions)
\* they are exactly the rule-based extractor's intents for the message; never a mix.
C13_IntentsFromOneSource ==
    IsChat /\ message # <<>> =>
        IF RefOrchestratorIntents # <<>>
        THEN [i \in DOMAIN out.intents |-> TypeAndLayer(out.intents[i])] = RefOrchestratorIntents
        ELSE out.intents = RefClassify(Lower(message))
C13_Witness ==
    /\ IsChat /\ message = Sentence(<<W_clear, W_dengue>>, <<" ">>)
    /\ toolResponse.kind = "message"
    /\ Len(toolResponse.tool_calls) = 2
    /\ RefClassify(Lower(message)) = <<[type |-> "clear_all"], [type |-> "show_layer", layer |-> "dengue"]>>
    /\ out.intents = <<[type |-> "hide_layer", layer |-> "planning"], [type |-> "clear_all"]>>


\* the orchestrator returned a result with free text
OrchestratorText ==
    ~OrchestratorAbsent /\ toolResponse.kind = "message" /\ ~Blank(toolResponse.content)

\* the fixed phrase of an intent, and the phrases of a result joined by a space
RefPhrase(it) ==
    IF it.type = "clear_all" THEN "Clearing map overlays."
    ELSE IF it.type = "show_layer"
        THEN (IF it.layer = "dengue" THEN "Showing dengue hotspots on the map."
              ELSE "Showing planning area boundaries.")
    ELSE IF it.layer = "dengue" THEN "Hiding dengue hotspots."
    ELSE "Hiding planning area boundaries."
RefPhrases(intents) == JoinStr([i \in DOMAIN intents |-> RefPhrase(intents[i])], " ")

\* C14: in every branch the reply comes from the first strategy that succeeds in the
\* order: the orchestrator's free text, the text of the plain model call, the
\* list/summarize pattern rules, the intent phrases, the static message; whenever the
\* plain call returns text and the orchestrator gave none, the reply is that text.
C14_FirstStrategyWins ==
    IsChat /\ message # <<>> =>
        LET low    == Lower(message)
            listed == SelectSeq(RefTargets(low), LAMBDA key : RefNames(key) # <<>>)
        IN  /\ OrchestratorText => out.reply = "Sure."
            /\ ~OrchestratorText /\ PlainText => out.reply = "Ask me."
            /\ NoModelText /\ RefListWord(low) /\ listed # <<>> =>
                  out.reply =
                      JoinStr([i \in DOMAIN listed |->
                                  RefSection(listed[i], Take(RefNames(listed[i]), 100))],
                              "\n\n")
            /\ NoModelText /\ ~RefListWord(low) /\ ~RefSummaryWord(low) =>
                  out.reply =
                      IF out.intents # <<>> THEN RefPhrases(out.intents)
                      ELSE "Here to help with dengue hotspots and planning areas."


\* the handler is at a model call and the attempt it makes fails
ToolAttemptFails == op = "tool_call" /\ toolResponse'.kind = "error"
PlainAttemptFails == op \in {"second_call", "azure_reply"} /\ plainResponse'.kind = "error"

\* C15: no retries: within one chat request the tool-calling call is attempted at most
\* once and the plain call at most once, at most two model calls on any path; a failed
\* attempt is not repeated, control moves to the next fallback tier; and every request
\* ends with a response.
C15_NoRetries ==
    /\ [](calls.tools <= 1 /\ calls.plain <= 1 /\ calls.tools + calls.plain <= 2)
    /\ [][/\ ToolAttemptFails => op' = "rule_patterns" /\ calls'.tools = 1
          /\ PlainAttemptFails =>
                /\ op' = (IF op = "second_call" THEN "tool_patterns" ELSE "static")
                /\ calls'.plain = 1]_vars
    /\ (op # "idle" ~> op = "done")
C15_Witness ==
    /\ op = "done" /\ message = W_hello
    /\ toolResponse.kind = "error" /\ plainResponse.kind = "error"
    /\ calls = [builder |-> 2, tools |-> 1, plain |-> 1]
    /\ out.reply = Some("Here to help with dengue hotspots and planning areas.")


ShowDengueHidePlanning == Sentence(<<W_show, W_dengue, W_and, W_hide, W_planning>>, <<" ">>)

\* C16: polarity is decided once per message: when the lower-cased message holds a hide
\* word as a substring, every layer intent _classify_intents emits is hide_layer, also
\* for a layer the message asks to show ("show dengue and hide planning" hides both);
\* otherwise every layer intent is show_layer; no result mixes the two.
C16_OnePolarity ==
    op = "classify" =>
        /\ \A i \in DOMAIN out.intents :
              out.intents[i].type # "clear_all" =>
                  out.intents[i].type =
                      IF RefHideWord(Lower(message)) THEN "hide_layer" ELSE "show_layer"
        /\ ~\E i, j \in DOMAIN out.intents :
                out.intents[i].type = "show_layer" /\ out.intents[j].type = "hide_layer"
        /\ message = ShowDengueHidePlanning =>
              out.intents = <<[type |-> "hide_layer", layer |-> "dengue"],
                              [type |-> "hide_layer", layer |-> "planning"]>>
C16_Witness ==
    /\ op = "classify" /\ message = ShowDengueHidePlanning
    /\ out.intents = <<[type |-> "hide_layer", layer |-> "dengue"],
                       [type |-> "hide_layer", layer |-> "planning"]>>


ListSummary == Sentence(<<W_list, W_summary>>, <<" ">>)

\* C17: the pattern step gives the same reply in both branches of chat_api: for every
\* message and every upstream data state, the reply of the tool-calling branch (list
\* first, then summarize if the list gave nothing) equals the reply of the rule-based
\* branch (list, else summarize only when the list pattern did not match), also when
\* both give no reply, which is when no pattern matches or no targeted layer has a name.
C17_SamePatternReply ==
    op = "patterns" =>
        /\ out.tools = out.rules
        /\ out.rules = None <=>
              \/ ~RefListWord(Lower(message)) /\ ~RefSummaryWord(Lower(message))
              \/ \A i \in DOMAIN RefTargets(Lower(message)) :
                    RefNames(RefTargets(Lower(message))[i]) = <<>>
C17_Witness ==
    /\ op = "patterns" /\ message = ListSummary
    /\ RefDengueNames = <<>> /\ Len(planningUpstream) = 3
    /\ out.tools = Some("Planning Areas (2019):\n- Bedok\n- Tampines\n- Woodlands")
    /\ out.rules = out.tools

====
